---- MODULE Spec2Model ----
(***************************************************************************)
(* Day-weighted interest accrual (zestaw1/zad1.py) and loan amortization   *)
(* schedules (zad7.py).                                                    *)
(*                                                                         *)
(* Numbers.  The Python code computes on floats.  A number of the model is *)
(* an exact rational [neg, num, den] in lowest terms whose numerator and   *)
(* denominator are arbitrary-precision naturals (little-endian sequences   *)
(* of 15-bit limbs, because a TLC integer has 32 bits).  Every arithmetic  *)
(* operation of the code is modelled as the exact operation followed by    *)
(* Fl(ar, _): under ar = "double" the exact result is rounded to the       *)
(* nearest IEEE-754 binary64 value, ties to even, which is what CPython    *)
(* does; under ar = "real" nothing is rounded, which is the same code read *)
(* over exact arithmetic.  Overflow to infinity, subnormals, NaN and the   *)
(* sign of zero are outside the inputs the model draws.                    *)
(***************************************************************************)
EXTENDS Integers, Sequences, FiniteSets, TLC

\* ---------------------------------------------------------------------
\* Arbitrary-precision naturals
\* ---------------------------------------------------------------------
\* The arithmetic operators use one another through Call, so that they
\* form a single recursive definition (TLC's coverage statistics expand
\* every other operator application in place): NatAdd(a, b) is
\* NatAddDef(a, b), and so on.
RECURSIVE Call(_, _, _, _)
NatTrim(a) == Call("NatTrim", a, 0, 0)
NatOfInt(n) == Call("NatOfInt", n, 0, 0)
NatCmp(a, b) == Call("NatCmp", a, b, 0)
NatAdd(a, b) == Call("NatAdd", a, b, 0)
NatSub(a, b) == Call("NatSub", a, b, 0)
NatMulSmall(a, k) == Call("NatMulSmall", a, k, 0)
NatMul(a, b) == Call("NatMul", a, b, 0)
NatDivSmall(a, k) == Call("NatDivSmall", a, k, 0)
NatBitLen(a) == Call("NatBitLen", a, 0, 0)
NatShl(a, n) == Call("NatShl", a, n, 0)
NatShr(a, n) == Call("NatShr", a, n, 0)
NatDigit(b, cur, qh) == Call("NatDigit", b, cur, qh)
NatDivMod(a, b) == Call("NatDivMod", a, b, 0)
NatGcd(a, b) == Call("NatGcd", a, b, 0)
NatTrailingZeros(a) == Call("NatTrailingZeros", a, 0, 0)
NatPow(a, n) == Call("NatPow", a, n, 0)
Reduce(neg, num, den) == Call("Reduce", neg, num, den)
RoundDouble(neg, num, den) == Call("RoundDouble", neg, num, den)
QFrac(n, d) == Call("QFrac", n, d, 0)
QCmp(a, b) == Call("QCmp", a, b, 0)
QAdd(ar, a, b) == Call("QAdd", ar, a, b)
QMul(ar, a, b) == Call("QMul", ar, a, b)
QDiv(ar, a, b) == Call("QDiv", ar, a, b)
QPow(ar, x, n) == Call("QPow", ar, x, n)
Invoke(c, txs) == Call("Invoke", c, txs, 0)

BASE == 2^15

RECURSIVE NatTrimDef(_)
NatTrimDef(a) ==
    IF a = <<>> THEN a
    ELSE IF a[Len(a)] = 0 THEN NatTrimDef(SubSeq(a, 1, Len(a) - 1)) ELSE a

RECURSIVE NatOfIntDef(_)
NatOfIntDef(n) == IF n = 0 THEN <<>> ELSE <<n % BASE>> \o NatOfIntDef(n \div BASE)

Limb(a, i) == IF i <= Len(a) THEN a[i] ELSE 0

RECURSIVE NatCmpFrom(_, _, _)
NatCmpFrom(a, b, i) ==
    IF i = 0 THEN 0
    ELSE IF a[i] # b[i] THEN (IF a[i] < b[i] THEN -1 ELSE 1)
    ELSE NatCmpFrom(a, b, i - 1)

NatCmpDef(a, b) ==
    IF Len(a) # Len(b) THEN (IF Len(a) < Len(b) THEN -1 ELSE 1)
    ELSE NatCmpFrom(a, b, Len(a))

RECURSIVE NatAddFrom(_, _, _, _)
NatAddFrom(a, b, i, c) ==
    IF i > Len(a) /\ i > Len(b) THEN (IF c = 0 THEN <<>> ELSE <<c>>)
    ELSE LET s == Limb(a, i) + Limb(b, i) + c
         IN  <<s % BASE>> \o NatAddFrom(a, b, i + 1, s \div BASE)

NatAddDef(a, b) == NatAddFrom(a, b, 1, 0)

RECURSIVE NatSubFrom(_, _, _, _)
NatSubFrom(a, b, i, br) ==
    IF i > Len(a) THEN <<>>
    ELSE LET d == a[i] - Limb(b, i) - br
         IN  <<IF d < 0 THEN d + BASE ELSE d>>
             \o NatSubFrom(a, b, i + 1, IF d < 0 THEN 1 ELSE 0)

\* a - b for a >= b
NatSubDef(a, b) == NatTrim(NatSubFrom(a, b, 1, 0))

RECURSIVE NatMulSmallFrom(_, _, _, _)
NatMulSmallFrom(a, k, i, c) ==
    IF i > Len(a) THEN NatOfInt(c)
    ELSE LET p == a[i] * k + c
         IN  <<p % BASE>> \o NatMulSmallFrom(a, k, i + 1, p \div BASE)

\* a * k for 0 <= k <= BASE
NatMulSmallDef(a, k) == IF k = 0 THEN <<>> ELSE NatMulSmallFrom(a, k, 1, 0)

NatShiftLimb(a) == IF a = <<>> THEN a ELSE <<0>> \o a

RECURSIVE NatMulFrom(_, _, _)
NatMulFrom(a, b, i) ==
    IF i > Len(b) THEN <<>>
    ELSE NatAdd(NatMulSmall(a, b[i]), NatShiftLimb(NatMulFrom(a, b, i + 1)))

NatMulDef(a, b) == IF Len(a) >= Len(b) THEN NatMulFrom(a, b, 1) ELSE NatMulFrom(b, a, 1)

RECURSIVE NatDivSmallFrom(_, _, _)
\* short division from the top limb down; st holds the next limb index i,
\* the quotient limbs found so far and the running remainder
NatDivSmallFrom(a, k, st) ==
    IF st.i = 0 THEN st
    ELSE LET cur == st.r * BASE + a[st.i]
         IN  NatDivSmallFrom(a, k, [i |-> st.i - 1,
                                    q |-> <<cur \div k>> \o st.q,
                                    r |-> cur % k])

\* quotient and remainder of a by the integer k, 1 <= k <= BASE
NatDivSmallDef(a, k) ==
    LET res == NatDivSmallFrom(a, k, [i |-> Len(a), q |-> <<>>, r |-> 0])
    IN  [q |-> NatTrim(res.q), r |-> res.r]

RECURSIVE IntBitLen(_)
IntBitLen(x) == IF x = 0 THEN 0 ELSE 1 + IntBitLen(x \div 2)

NatBitLenDef(a) == IF a = <<>> THEN 0 ELSE 15 * (Len(a) - 1) + IntBitLen(a[Len(a)])

RECURSIVE NatShiftLimbs(_, _)
NatShiftLimbs(a, n) == IF n = 0 THEN a ELSE NatShiftLimbs(NatShiftLimb(a), n - 1)

\* a * 2^n
NatShlDef(a, n) == NatShiftLimbs(NatMulSmall(a, 2^(n % 15)), n \div 15)

\* floor(a / 2^n)
NatShrDef(a, n) ==
    IF n \div 15 >= Len(a) THEN <<>>
    ELSE NatDivSmall(SubSeq(a, n \div 15 + 1, Len(a)), 2^(n % 15)).q

Min(x, y) == IF x < y THEN x ELSE y

\* the largest d <= qh with d * b <= cur
RECURSIVE NatDigitDef(_, _, _)
NatDigitDef(b, cur, qh) ==
    IF NatCmp(NatMulSmall(b, qh), cur) > 0 THEN NatDigitDef(b, cur, qh - 1) ELSE qh

RECURSIVE NatDivLoop(_, _, _)
\* long division of a by a divisor b whose top limb is at least BASE / 2,
\* from limb st.i of a down; st holds the quotient limbs found so far and
\* the running remainder
NatDivLoop(a, b, st) ==
    IF st.i = 0 THEN st
    ELSE LET cur == NatTrim(<<a[st.i]>> \o st.r)
             nb  == Len(b)
             top == Limb(cur, nb + 1) * BASE + Limb(cur, nb)
             d   == IF Len(cur) < nb THEN 0
                    ELSE NatDigit(b, cur, Min(top \div b[nb], BASE - 1))
         IN  NatDivLoop(a, b, [i |-> st.i - 1,
                               q |-> <<d>> \o st.q,
                               r |-> NatSub(cur, NatMulSmall(b, d))])

\* quotient and remainder of a by b, b # 0
NatDivModDef(a, b) ==
    IF NatCmp(a, b) < 0 THEN [q |-> <<>>, r |-> a]
    ELSE IF Len(b) = 1 THEN
        LET res == NatDivSmall(a, b[1]) IN [q |-> res.q, r |-> NatOfInt(res.r)]
    ELSE LET s   == 15 - IntBitLen(b[Len(b)])
             an  == NatShl(a, s)
             top == Len(an) - Len(b) + 1
             res == NatDivLoop(an, NatShl(b, s),
                               [i |-> top, q |-> <<>>,
                                r |-> SubSeq(an, top + 1, Len(an))])
         IN  [q |-> NatTrim(res.q), r |-> NatShr(res.r, s)]

RECURSIVE NatGcdDef(_, _)
NatGcdDef(a, b) == IF b = <<>> THEN a ELSE NatGcdDef(b, NatDivMod(a, b).r)

RECURSIVE IntTrailingZeros(_)
IntTrailingZeros(v) == IF v % 2 = 1 THEN 0 ELSE 1 + IntTrailingZeros(v \div 2)

RECURSIVE NatTrailingZerosFrom(_, _)
NatTrailingZerosFrom(a, i) ==
    IF a[i] = 0 THEN 15 + NatTrailingZerosFrom(a, i + 1) ELSE IntTrailingZeros(a[i])

\* the number of trailing zero bits of a # 0
NatTrailingZerosDef(a) == NatTrailingZerosFrom(a, 1)

NatOne == <<1>>

\* ---------------------------------------------------------------------
\* Numbers: exact rationals, rounded to binary64 under ar = "double"
\* ---------------------------------------------------------------------
Zero == [neg |-> FALSE, num |-> <<>>, den |-> NatOne]

\* num / den in lowest terms
ReduceDef(neg, num, den) ==
    IF num = <<>> THEN Zero
    ELSE LET g == NatGcd(num, den)
         IN  IF g = NatOne THEN [neg |-> neg, num |-> num, den |-> den]
             ELSE [neg |-> neg, num |-> NatDivMod(num, g).q, den |-> NatDivMod(den, g).q]

\* num / den rounded to the nearest number with a 53-bit significand, ties
\* to even: an arithmetic operation on Python floats returns this of its
\* exact result
RoundDoubleDef(neg, num, den) ==
    IF num = <<>> THEN Zero
    ELSE LET e0 == NatBitLen(num) - NatBitLen(den)
             ge == IF e0 >= 0 THEN NatCmp(num, NatShl(den, e0)) >= 0
                   ELSE NatCmp(NatShl(num, -e0), den) >= 0
             e  == IF ge THEN e0 ELSE e0 - 1
             k  == 52 - e
             A  == IF k >= 0 THEN NatShl(num, k) ELSE num
             D  == IF k >= 0 THEN den ELSE NatShl(den, -k)
             dm == NatDivMod(A, D)
             c  == NatCmp(NatShl(dm.r, 1), D)
             up == c > 0 \/ (c = 0 /\ dm.q[1] % 2 = 1)
             m  == IF up THEN NatAdd(dm.q, NatOne) ELSE dm.q
             t  == Min(NatTrailingZeros(m), k)
         IN  IF k <= 0 THEN [neg |-> neg, num |-> NatShl(m, -k), den |-> NatOne]
             ELSE [neg |-> neg, num |-> NatShr(m, t), den |-> NatShl(NatOne, k - t)]

Arith == {"real", "double"}

\* the value an operation returns, given its exact result num / den
Fl(ar, neg, num, den) ==
    IF ar = "double" THEN RoundDouble(neg, num, den) ELSE Reduce(neg, num, den)

\* the number n / d for integers n and d > 0 below 2^31
QFracDef(n, d) == Reduce(n < 0, NatOfInt(IF n < 0 THEN -n ELSE n), NatOfInt(d))
QInt(n) == QFrac(n, 1)

QNeg(a) == IF a.num = <<>> THEN a ELSE [a EXCEPT !.neg = ~a.neg]
QIsZero(a) == a.num = <<>>

\* -1, 0, 1 as a < b, a = b, a > b
QCmpDef(a, b) ==
    IF a.neg # b.neg THEN (IF a.neg THEN -1 ELSE 1)
    ELSE LET c == NatCmp(NatMul(a.num, b.den), NatMul(b.num, a.den))
         IN  IF a.neg THEN -c ELSE c

QLe(a, b) == QCmp(a, b) <= 0
QLt(a, b) == QCmp(a, b) < 0
QAbs(a) == [a EXCEPT !.neg = FALSE]

QAddDef(ar, a, b) ==
    LET g  == NatGcd(a.den, b.den)
        da == NatDivMod(a.den, g).q
        db == NatDivMod(b.den, g).q
        x  == NatMul(a.num, db)
        y  == NatMul(b.num, da)
        d  == NatMul(a.den, db)
    IN  IF a.neg = b.neg THEN Fl(ar, a.neg, NatAdd(x, y), d)
        ELSE IF NatCmp(x, y) >= 0 THEN Fl(ar, a.neg, NatSub(x, y), d)
        ELSE Fl(ar, b.neg, NatSub(y, x), d)

QSub(ar, a, b) == QAdd(ar, a, QNeg(b))

QMulDef(ar, a, b) ==
    Fl(ar, a.neg # b.neg, NatMul(a.num, b.num), NatMul(a.den, b.den))

\* a / b for b # 0
QDivDef(ar, a, b) ==
    Fl(ar, a.neg # b.neg, NatMul(a.num, b.den), NatMul(a.den, b.num))

QOne == [neg |-> FALSE, num |-> NatOne, den |-> NatOne]

RECURSIVE NatPowDef(_, _)
NatPowDef(a, n) == IF n = 0 THEN NatOne ELSE NatMul(NatPowDef(a, n - 1), a)

\* math.pow(x, n) for an integer n and x # 0: the exact power (a power of a
\* fraction in lowest terms is in lowest terms), rounded once under "double"
QPowDef(ar, x, n) ==
    LET neg == x.neg /\ n % 2 = 1
        m   == IF n < 0 THEN -n ELSE n
        pn  == NatPow(x.num, m)
        pd  == NatPow(x.den, m)
        p   == IF n < 0 THEN [neg |-> neg, num |-> pd, den |-> pn]
               ELSE [neg |-> neg, num |-> pn, den |-> pd]
    IN  IF ar = "double" THEN RoundDouble(p.neg, p.num, p.den) ELSE p

\* an argument as the caller passes it: a float under "double"
Arg(ar, q) == Fl(ar, q.neg, q.num, q.den)

\* ---------------------------------------------------------------------
\* zad7.py: amortization schedules
\* ---------------------------------------------------------------------
Raise(exc) == [raised |-> exc]
Raised(res) == "raised" \in DOMAIN res

Row(k, current_principal, total_payment, interest_payment, principal_payment) ==
    [period            |-> k,
     initial_principal |-> current_principal,
     total_payment     |-> total_payment,
     interest_payment  |-> interest_payment,
     principal_payment |-> principal_payment]

\* a faulty line 27 / 59: the annual rate used as the periodic rate
PeriodicRateAnnual(ar, r_pa, n_per_year) == r_pa

\* r_p = r_pa / n_per_year, for n_per_year # 0
PeriodicRate(ar, r_pa, n_per_year) == QDiv(ar, r_pa, QInt(n_per_year))

\* a faulty line 46 / 85: the principal is never reduced
ReducePrincipalByNothing(ar, current_principal, principal_payment) ==
    current_principal

\* current_principal -= principal_payment
ReducePrincipal(ar, current_principal, principal_payment) ==
    QSub(ar, current_principal, principal_payment)

\* a faulty line 30: P // N, the quotient cut to a whole number
ConstantPrincipalPaymentFloorDiv(ar, P, N) ==
    LET q == QDiv("real", P, QInt(N))
    IN  Reduce(q.neg, NatDivMod(q.num, q.den).q, NatOne)

\* P / N: the constant principal payment, for N # 0
ConstantPrincipalPayment(ar, P, N) == QDiv(ar, P, QInt(N))

\* one pass of the body of "for k in range(1, N + 1)" on the locals st
ConstantPrincipalStep(ar, st) ==
    LET interest_payment == QMul(ar, st.current_principal, st.r_p)
        total_payment    == QAdd(ar, st.principal_payment, interest_payment)
    IN  [st EXCEPT
            !.schedule = Append(@, Row(st.k, st.current_principal, total_payment,
                                       interest_payment, st.principal_payment)),
            !.total_interest = QAdd(ar, @, interest_payment),
            !.current_principal = ReducePrincipal(ar, @, st.principal_payment),
            !.k = @ + 1]

RECURSIVE ConstantPrincipalLoop(_, _)
ConstantPrincipalLoop(ar, st) ==
    IF st.k > st.N THEN st ELSE ConstantPrincipalLoop(ar, ConstantPrincipalStep(ar, st))

Returned(st) == [schedule |-> st.schedule, total_interest |-> st.total_interest]

calculate_constant_principal_schedule(ar, P, r_pa, T_years, n_per_year) ==
    IF n_per_year = 0 THEN Raise("ZeroDivisionError")
    ELSE IF T_years * n_per_year = 0 THEN Raise("ZeroDivisionError")
    ELSE Returned(ConstantPrincipalLoop(ar,
            [schedule          |-> <<>>,
             total_interest    |-> Zero,
             r_p               |-> PeriodicRate(ar, r_pa, n_per_year),
             N                 |-> T_years * n_per_year,
             principal_payment |-> ConstantPrincipalPayment(ar, P, T_years * n_per_year),
             current_principal |-> P,
             k                 |-> 1]))

\* a faulty line 74: the whole payment counted as principal
AnnuityPrincipalPaymentWhole(ar, total_payment, interest_payment) ==
    total_payment

\* principal_payment = total_payment - interest_payment
AnnuityPrincipalPayment(ar, total_payment, interest_payment) ==
    QSub(ar, total_payment, interest_payment)

AnnuityStep(ar, st) ==
    LET interest_payment  == QMul(ar, st.current_principal, st.r_p)
        principal_payment ==
            AnnuityPrincipalPayment(ar, st.total_payment, interest_payment)
    IN  [st EXCEPT
            !.schedule = Append(@, Row(st.k, st.current_principal, st.total_payment,
                                       interest_payment, principal_payment)),
            !.total_interest = QAdd(ar, @, interest_payment),
            !.current_principal = ReducePrincipal(ar, @, principal_payment),
            !.k = @ + 1]

RECURSIVE AnnuityLoop(_, _)
AnnuityLoop(ar, st) ==
    IF st.k > st.N THEN st ELSE AnnuityLoop(ar, AnnuityStep(ar, st))

\* a faulty line 65: the annuity formula applied whatever the rate
AnnuityPaymentByFormula(ar, P, r_p, N) ==
    LET base  == QAdd(ar, QOne, r_p)
        denom == QSub(ar, QOne, QPow(ar, base, -N))
    IN  IF QIsZero(denom) THEN Raise("ZeroDivisionError")
        ELSE [value |-> QMul(ar, P, QDiv(ar, r_p, denom))]

\* the constant payment PMT as [value |-> PMT], or what the code raises
AnnuityPayment(ar, P, r_p, N) ==
    IF QCmp(r_p, Zero) > 0 THEN
        LET base  == QAdd(ar, QOne, r_p)
            denom == QSub(ar, QOne, QPow(ar, base, -N))
        IN  IF QIsZero(denom) THEN Raise("ZeroDivisionError")
            ELSE [value |-> QMul(ar, P, QDiv(ar, r_p, denom))]
    ELSE IF N = 0 THEN Raise("ZeroDivisionError")
    ELSE [value |-> QDiv(ar, P, QInt(N))]

calculate_annuity_schedule(ar, P, r_pa, T_years, n_per_year) ==
    IF n_per_year = 0 THEN Raise("ZeroDivisionError")
    ELSE LET r_p == PeriodicRate(ar, r_pa, n_per_year)
             N   == T_years * n_per_year
             pmt == AnnuityPayment(ar, P, r_p, N)
         IN  IF Raised(pmt) THEN pmt
             ELSE Returned(AnnuityLoop(ar,
                     [schedule          |-> <<>>,
                      total_interest    |-> Zero,
                      r_p               |-> r_p,
                      N                 |-> N,
                      total_payment     |-> pmt.value,
                      current_principal |-> P,
                      k                 |-> 1]))

\* ---------------------------------------------------------------------
\* zestaw1/zad1.py: day-weighted interest accrual
\* ---------------------------------------------------------------------
\* A dict is the sequence of its <<key, value>> items in insertion order.
HasKey(d, key) == \E i \in 1..Len(d) : d[i][1] = key

\* d[key] = value: a present key keeps its place, a new one goes last
DictSet(d, key, value) ==
    IF HasKey(d, key)
    THEN [i \in 1..Len(d) |-> IF d[i][1] = key THEN <<key, value>> ELSE d[i]]
    ELSE Append(d, <<key, value>>)

RECURSIVE InsertByDay(_, _)
InsertByDay(sorted, item) ==
    IF sorted = <<>> THEN <<item>>
    ELSE IF item[1] < Head(sorted)[1] THEN <<item>> \o sorted
    ELSE <<Head(sorted)>> \o InsertByDay(Tail(sorted), item)

RECURSIVE SortedItemsFrom(_, _)
SortedItemsFrom(d, i) ==
    IF i = 0 THEN <<>> ELSE InsertByDay(SortedItemsFrom(d, i - 1), d[i])

\* a faulty line 8: the items taken in insertion order
SortedDictAsInserted(transactions) == transactions

\* dict(sorted(transactions.items())): a new dict, its keys ascending
SortedDict(transactions) == SortedItemsFrom(transactions, Len(transactions))

\* sorted_transactions after the sentinel of day days_in_month + 1 is stored
SortedTransactions(transactions, days_in_month) ==
    DictSet(SortedDict(transactions), days_in_month + 1, Zero)

\* a faulty line 9: the sentinel stored into the caller's own dict
CallerTransactionsWithSentinel(transactions, days_in_month) ==
    DictSet(transactions, days_in_month + 1, Zero)

\* the dict bound to the caller's name after the call: lines 8 and 9 build
\* and write a dict of the function's own, and nothing writes the argument
CallerTransactionsAfter(transactions, days_in_month) == transactions

DaysPerYear == 365

\* daily_rate = annual_rate / 365
DailyRate(ar, annual_rate) == QDiv(ar, annual_rate, QInt(DaysPerYear))

\* a faulty line 12: the transaction's own day counted with the days before it
NumDaysInclusive(day, processed_through_day) == day - processed_through_day

\* num_days = (day - 1) - processed_through_day
NumDays(day, processed_through_day) == (day - 1) - processed_through_day

\* interest_for_period = current_balance * daily_rate * num_days
InterestForPeriod(ar, current_balance, daily_rate, num_days) ==
    QMul(ar, QMul(ar, current_balance, daily_rate), QInt(num_days))

\* one pass of the body of "for day, amount in sorted_transactions.items()"
MonthlyStep(ar, st) ==
    LET day      == st.items[st.i][1]
        amount   == st.items[st.i][2]
        num_days == NumDays(day, st.processed_through_day)
    IN  [st EXCEPT
            !.total_interest =
                IF num_days > 0
                THEN QAdd(ar, @, InterestForPeriod(ar, st.current_balance,
                                                   st.daily_rate, num_days))
                ELSE @,
            !.current_balance = QAdd(ar, @, amount),
            !.processed_through_day = day - 1,
            !.i = @ + 1]

RECURSIVE MonthlyLoop(_, _)
MonthlyLoop(ar, st) ==
    IF st.i > Len(st.items) THEN st ELSE MonthlyLoop(ar, MonthlyStep(ar, st))

\* a faulty line 22: the interest left out of the closing balance
ClosingBalanceWithoutInterest(ar, current_balance, total_interest) ==
    current_balance

\* closing_balance = current_balance + total_interest
ClosingBalance(ar, current_balance, total_interest) ==
    QAdd(ar, current_balance, total_interest)

calculate_monthly_interest(ar, start_balance, transactions, days_in_month, annual_rate) ==
    LET st == MonthlyLoop(ar,
                [daily_rate            |-> DailyRate(ar, annual_rate),
                 total_interest        |-> Zero,
                 current_balance       |-> start_balance,
                 processed_through_day |-> 0,
                 items |-> SortedTransactions(transactions, days_in_month),
                 i                     |-> 1])
    IN  [total_interest  |-> st.total_interest,
         closing_balance |-> ClosingBalance(ar, st.current_balance, st.total_interest)]

\* ---------------------------------------------------------------------
\* zadanie2.py, zad3.py, zad4.py: doubling times and rate conversions
\* ---------------------------------------------------------------------
\* A logarithm or a fractional power of a rational is no rational.  Where
\* the library returns an exact value (math.log(1.0) = 0.0, pow(x, 1.0) = x,
\* pow(1.0, y) = 1.0, pow(0.0, y) = 0.0 for y > 0) the model computes it;
\* elsewhere the value is kept as the term that was applied, which is a
\* float other than zero (the inputs drawn stay clear of underflow and
\* overflow, and the frequencies n are whole numbers).
IsNumber(v) == "num" \in DOMAIN v

\* math.log(x), x > 0
Log(x) == IF x = QOne THEN Zero ELSE [log |-> x]

\* pow(b, e), e > 0
Power(b, e) ==
    IF e = QOne THEN b
    ELSE IF b = QOne THEN QOne
    ELSE IF QIsZero(b) THEN Zero
    ELSE [pow |-> <<b, e>>]

\* a * b for a number a
Times(ar, a, b) ==
    IF QIsZero(a) THEN Zero
    ELSE IF IsNumber(b) THEN QMul(ar, a, b)
    ELSE [times |-> <<a, b>>]

\* a - b for a number b
Minus(ar, a, b) == IF IsNumber(a) THEN QSub(ar, a, b) ELSE [minus |-> <<a, b>>]

\* return a / b, or the ZeroDivisionError of a float division by 0.0
ReturnQuotient(ar, a, b) ==
    IF IsNumber(b) /\ QIsZero(b) THEN Raise("ZeroDivisionError")
    ELSE IF IsNumber(a) /\ IsNumber(b) THEN [value |-> QDiv(ar, a, b)]
    ELSE [value |-> [truediv |-> <<a, b>>]]

t_simple(ar, R) ==
    IF QLe(R, Zero) THEN Raise("ValueError")
    ELSE ReturnQuotient(ar, QOne, R)

t_compound(ar, R, n) ==
    IF QLe(R, Zero) \/ n <= 0 THEN Raise("ValueError")
    ELSE ReturnQuotient(ar, Log(QInt(2)),
            Times(ar, QInt(n), Log(QAdd(ar, QOne, QDiv(ar, R, QInt(n))))))

t_continuous(ar, R) ==
    IF QLe(R, Zero) THEN Raise("ValueError")
    ELSE ReturnQuotient(ar, Log(QInt(2)), R)

calculate_nominal_rate_discrete(ar, inflation_rate, n) ==
    IF n <= 0 THEN Raise("ValueError")
    ELSE LET effective_rate_per_period ==
                 Power(QAdd(ar, QOne, inflation_rate), QDiv(ar, QOne, QInt(n)))
         IN  [value |-> Times(ar, QInt(n), Minus(ar, effective_rate_per_period, QOne))]

calculate_equivalent_periodic_rate(ar, annual_effective_rate, n) ==
    IF n <= 0 THEN Raise("ValueError")
    ELSE [value |-> Minus(ar, Power(QAdd(ar, QOne, annual_effective_rate),
                                    QDiv(ar, QOne, QInt(n))),
                          QOne)]

\* ---------------------------------------------------------------------
\* The scripts as a state machine: a caller that builds a transactions
\* mapping (zad1.py), holds loan parameters (zad7.py) or a rate (zadanie2.py,
\* zad3.py, zad4.py), calls a function,
\* may call it once more with the same arguments, and drops the results.
\* ---------------------------------------------------------------------
MaxTx == 2        \* entries a caller puts into a mapping
MaxDay == 2       \* the longest short month, and the latest day key inserted
MaxYears == 1     \* T_years runs from -1 to MaxYears
MaxPerYear == 4   \* n_per_year runs from -1 to MaxPerYear

\* 10^11, above the range of a TLC integer
LargePrincipal == QMul("real", QInt(100000), QInt(1000000))

\* zad1.py's own mappings (transactions_oct, transactions_nov)
transactions_oct == <<<<5, QInt(17000)>>, <<12, QInt(35000)>>, <<21, QInt(-55000)>>>>
transactions_nov == <<<<9, QInt(-25000)>>, <<30, QInt(100000)>>>>

Amounts == {QInt(17000), QInt(-55000)}
DayKeys == 1..MaxDay
DaysInMonth == (1..MaxDay) \cup {30, 31}
StartBalances == {QInt(100000), Zero}
AnnualRates == {QFrac(5, 100)}
Principals == {QInt(10000), LargePrincipal}
NominalRates == {Zero, QFrac(10, 100)}
Years == -1..MaxYears
PerYear == -1..MaxPerYear
ScheduleFunctions == {"calculate_constant_principal_schedule", "calculate_annuity_schedule"}

\* 2^-60: a positive rate that 1.0 + R / n loses under binary64
TinyRate == [neg |-> FALSE, num |-> NatOne, den |-> NatShl(NatOne, 60)]

ConversionRates == {QFrac(-5, 100), Zero, QFrac(5, 100), QFrac(10, 100), TinyRate}
Frequencies == PerYear \cup {12, 365}
DoublingFunctions == {"t_simple", "t_continuous"}
FrequencyFunctions ==
    {"t_compound", "calculate_nominal_rate_discrete", "calculate_equivalent_periodic_rate"}

\* the script that defines fn
ScriptOf(fn) ==
    IF fn \in {"t_simple", "t_compound", "t_continuous"} THEN "zadanie2"
    ELSE IF fn = "calculate_nominal_rate_discrete" THEN "zad3"
    ELSE "zad4"

\* the outcome of the call c, made with the caller's mapping txs
InvokeDef(c, txs) ==
    IF c.fn = "calculate_monthly_interest"
    THEN calculate_monthly_interest(c.ar, c.start_balance, txs,
                                    c.days_in_month, c.annual_rate)
    ELSE IF c.fn = "calculate_constant_principal_schedule"
    THEN calculate_constant_principal_schedule(c.ar, c.P, c.r_pa, c.T_years, c.n_per_year)
    ELSE IF c.fn = "t_simple" THEN t_simple(c.ar, c.rate)
    ELSE IF c.fn = "t_compound" THEN t_compound(c.ar, c.rate, c.n)
    ELSE IF c.fn = "t_continuous" THEN t_continuous(c.ar, c.rate)
    ELSE IF c.fn = "calculate_nominal_rate_discrete"
    THEN calculate_nominal_rate_discrete(c.ar, c.rate, c.n)
    ELSE IF c.fn = "calculate_equivalent_periodic_rate"
    THEN calculate_equivalent_periodic_rate(c.ar, c.rate, c.n)
    ELSE calculate_annuity_schedule(c.ar, c.P, c.r_pa, c.T_years, c.n_per_year)

\* every operator above that is applied through its name
Call(f, x1, x2, x3) ==
    CASE f = "NatTrim" -> NatTrimDef(x1)
      [] f = "NatOfInt" -> NatOfIntDef(x1)
      [] f = "NatCmp" -> NatCmpDef(x1, x2)
      [] f = "NatAdd" -> NatAddDef(x1, x2)
      [] f = "NatSub" -> NatSubDef(x1, x2)
      [] f = "NatMulSmall" -> NatMulSmallDef(x1, x2)
      [] f = "NatMul" -> NatMulDef(x1, x2)
      [] f = "NatDivSmall" -> NatDivSmallDef(x1, x2)
      [] f = "NatBitLen" -> NatBitLenDef(x1)
      [] f = "NatShl" -> NatShlDef(x1, x2)
      [] f = "NatShr" -> NatShrDef(x1, x2)
      [] f = "NatDigit" -> NatDigitDef(x1, x2, x3)
      [] f = "NatDivMod" -> NatDivModDef(x1, x2)
      [] f = "NatGcd" -> NatGcdDef(x1, x2)
      [] f = "NatTrailingZeros" -> NatTrailingZerosDef(x1)
      [] f = "NatPow" -> NatPowDef(x1, x2)
      [] f = "Reduce" -> ReduceDef(x1, x2, x3)
      [] f = "RoundDouble" -> RoundDoubleDef(x1, x2, x3)
      [] f = "QFrac" -> QFracDef(x1, x2)
      [] f = "QCmp" -> QCmpDef(x1, x2)
      [] f = "QAdd" -> QAddDef(x1, x2, x3)
      [] f = "QMul" -> QMulDef(x1, x2, x3)
      [] f = "QDiv" -> QDivDef(x1, x2, x3)
      [] f = "QPow" -> QPowDef(x1, x2, x3)
      [] f = "Invoke" -> InvokeDef(x1, x2)

NoCall == [fn |-> "none"]
NoResult == [none |-> TRUE]

VARIABLES script, pc, transactions, call, result, again

vars == <<script, pc, transactions, call, result, again>>

\* the caller's mapping once the call c is over
After(c, txs) ==
    IF c.fn = "calculate_monthly_interest"
    THEN CallerTransactionsAfter(txs, c.days_in_month)
    ELSE txs

Init ==
    /\ script \in {"zad1", "zad7", "zadanie2", "zad3", "zad4"}
    /\ pc = "idle"
    /\ transactions \in IF script = "zad1"
                        THEN {<<>>, transactions_oct, transactions_nov}
                        ELSE {<<>>}
    /\ call = NoCall
    /\ result = NoResult
    /\ again = NoResult

\* transactions[day] = amount, in the caller
Insert(day, amount) ==
    /\ script = "zad1"
    /\ pc = "idle"
    /\ HasKey(transactions, day) \/ Len(transactions) < MaxTx
    /\ transactions' = DictSet(transactions, day, amount)
    /\ UNCHANGED <<script, pc, call, result, again>>

Returns(c) ==
    /\ pc = "idle"
    /\ call' = c
    /\ result' = Invoke(c, transactions)
    /\ transactions' = After(c, transactions)
    /\ pc' = "returned"
    /\ UNCHANGED <<script, again>>

CallMonthly(ar, start_balance, days_in_month, annual_rate) ==
    /\ script = "zad1"
    /\ Returns([fn            |-> "calculate_monthly_interest",
                ar            |-> ar,
                start_balance |-> Arg(ar, start_balance),
                transactions  |-> transactions,
                days_in_month |-> days_in_month,
                annual_rate   |-> Arg(ar, annual_rate)])

CallSchedule(fn, ar, P, r_pa, T_years, n_per_year) ==
    /\ script = "zad7"
    /\ Returns([fn |-> fn, ar |-> ar, P |-> Arg(ar, P), r_pa |-> Arg(ar, r_pa),
                T_years |-> T_years, n_per_year |-> n_per_year])

\* t_simple(R) or t_continuous(R)
CallDoublingTime(fn, ar, R) ==
    /\ script = ScriptOf(fn)
    /\ Returns([fn |-> fn, ar |-> ar, rate |-> Arg(ar, R)])

\* a conversion at n compounding periods a year
CallWithFrequency(fn, ar, rate, n) ==
    /\ script = ScriptOf(fn)
    /\ Returns([fn |-> fn, ar |-> ar, rate |-> Arg(ar, rate), n |-> n])

\* the same call once more, with the same arguments
CallAgain ==
    /\ pc = "returned"
    /\ again' = Invoke(call, transactions)
    /\ transactions' = After(call, transactions)
    /\ pc' = "again"
    /\ UNCHANGED <<script, call, result>>

\* the results are printed and dropped
Discard ==
    /\ pc \in {"returned", "again"}
    /\ pc' = "idle"
    /\ call' = NoCall
    /\ result' = NoResult
    /\ again' = NoResult
    /\ UNCHANGED <<script, transactions>>

Next ==
    \/ \E day \in DayKeys, amount \in Amounts : Insert(day, amount)
    \/ \E ar \in Arith, s \in StartBalances, d \in DaysInMonth, r \in AnnualRates :
          CallMonthly(ar, s, d, r)
    \/ \E fn \in ScheduleFunctions, ar \in Arith, P \in Principals,
          r \in NominalRates, T \in Years, n \in PerYear :
          CallSchedule(fn, ar, P, r, T, n)
    \/ \E fn \in DoublingFunctions, ar \in Arith, R \in ConversionRates :
          CallDoublingTime(fn, ar, R)
    \/ \E fn \in FrequencyFunctions, ar \in Arith, r \in ConversionRates, n \in Frequencies :
          CallWithFrequency(fn, ar, r, n)
    \/ CallAgain
    \/ Discard

Spec == Init /\ [][Next]_vars

\* ---------------------------------------------------------------------
\* Properties of the calls the scripts make
\* ---------------------------------------------------------------------
\* 1e-6, the tolerance the specification names
SpecTolerance == QFrac(1, 1000000)
\* 1e-9, far above the rounding of a handful of binary64 operations
RoundingTolerance == QFrac(1, 1000000000)

QMax(a, b) == IF QLe(a, b) THEN b ELSE a
Within(a, b, tol) == QLe(QAbs(QSub("real", a, b)), tol)

IsMonthlyCall == call.fn = "calculate_monthly_interest"
IsScheduleCall == call.fn \in ScheduleFunctions
IsAnnuityCall == call.fn = "calculate_annuity_schedule"
IsConstantPrincipalCall == call.fn = "calculate_constant_principal_schedule"

KeysInMonth ==
    \A i \in 1..Len(call.transactions) :
        call.transactions[i][1] \in 1..call.days_in_month

\* the exact sum of the amounts (of their sizes, with abs) of the items of
\* txs[1..i] dated on or before day
RECURSIVE SumThrough(_, _, _, _)
SumThrough(txs, i, day, abs) ==
    IF i = 0 THEN Zero
    ELSE IF txs[i][1] > day THEN SumThrough(txs, i - 1, day, abs)
    ELSE QAdd("real", SumThrough(txs, i - 1, day, abs),
              IF abs THEN QAbs(txs[i][2]) ELSE txs[i][2])

SumAmounts ==
    SumThrough(call.transactions, Len(call.transactions), call.days_in_month, FALSE)
SumAbsAmounts ==
    SumThrough(call.transactions, Len(call.transactions), call.days_in_month, TRUE)

\* B(d): the balance held on day d
BalanceOn(d) ==
    QAdd("real", call.start_balance,
         SumThrough(call.transactions, Len(call.transactions), d, FALSE))

\* the sum of B(d) over the days st.d .. days_in_month, added to st.sum
RECURSIVE SumOfDailyBalances(_)
SumOfDailyBalances(st) ==
    IF st.d > call.days_in_month THEN st.sum
    ELSE SumOfDailyBalances([d   |-> st.d + 1,
                             sum |-> QAdd("real", st.sum, BalanceOn(st.d))])

ExactDailyRate == QDiv("real", call.annual_rate, QInt(DaysPerYear))

ValidLoan ==
    /\ IsScheduleCall
    /\ QLt(Zero, call.P)
    /\ QLe(Zero, call.r_pa)
    /\ call.T_years >= 1
    /\ call.n_per_year >= 1

PeriodsOfCall == call.T_years * call.n_per_year

PositivePeriods ==
    /\ IsScheduleCall
    /\ QLt(Zero, call.P)
    /\ QLe(Zero, call.r_pa)
    /\ PeriodsOfCall >= 1

\* the balance the last row leaves
BalanceAfterLastRow ==
    LET last == result.schedule[Len(result.schedule)]
    IN  QSub(call.ar, last.initial_principal, last.principal_payment)

\* the principal portions of rows 1..k, added in row order
RECURSIVE SumOfPrincipalPortions(_)
SumOfPrincipalPortions(k) ==
    IF k = 0 THEN Zero
    ELSE QAdd(call.ar, SumOfPrincipalPortions(k - 1),
              result.schedule[k].principal_payment)

\* tol, scaled by the size of the loan
LoanTolerance(tol) == QMul("real", tol, QMax(QOne, call.P))

\* C1: a call of calculate_monthly_interest with days_in_month >= 1 and all
\* day keys in 1..days_in_month returns a closing balance equal to the start
\* balance plus the sum of the transaction amounts plus the returned total
\* interest: exactly in exact arithmetic, and to within rounding in binary64.
C1_ClosingBalance ==
    (IsMonthlyCall /\ call.days_in_month >= 1 /\ KeysInMonth) =>
        LET expected == QAdd("real", QAdd("real", call.start_balance, SumAmounts),
                             result.total_interest)
            size     == QAdd("real", QAdd("real", QAbs(call.start_balance), SumAbsAmounts),
                             QAdd("real", QOne, QAbs(result.total_interest)))
        IN  IF call.ar = "real" THEN result.closing_balance = expected
            ELSE Within(result.closing_balance, expected,
                        QMul("real", RoundingTolerance, size))

\* the October call of zad1.py, in binary64, has returned
C1_Witness ==
    /\ pc = "returned"
    /\ IsMonthlyCall
    /\ call.ar = "double"
    /\ call.transactions = transactions_oct
    /\ call.days_in_month = 31
    /\ call.start_balance = QInt(100000)
    /\ QLt(QInt(97000), result.closing_balance)

C3_DayWeightedInterest ==
    (pc = "returned" /\ IsMonthlyCall /\ KeysInMonth) =>
        LET days     == SumOfDailyBalances([d |-> 1, sum |-> Zero])
            expected == QMul("real", ExactDailyRate, days)
            size     == QAdd("real", QOne,
                             QMul("real", ExactDailyRate,
                                  QMul("real", QInt(call.days_in_month),
                                       QAdd("real", QAbs(call.start_balance),
                                            SumAbsAmounts))))
        IN  IF call.ar = "real" THEN result.total_interest = expected
            ELSE Within(result.total_interest, expected,
                        QMul("real", RoundingTolerance, size))

\* a month with a transaction on its first day and one on its last day
C3_Witness ==
    /\ pc = "returned"
    /\ IsMonthlyCall
    /\ call.days_in_month = MaxDay
    /\ HasKey(call.transactions, 1)
    /\ HasKey(call.transactions, MaxDay)
    /\ ~QIsZero(call.start_balance)
    /\ ~QIsZero(result.total_interest)

\* C4 as stated: for valid inputs the principal portions of the constant
\* principal schedule all equal P / N, sum to P within 1e-6 and leave a
\* balance within 1e-6 of zero after the last row.
C4_AbsoluteTolerance ==
    (ValidLoan /\ IsConstantPrincipalCall) =>
        /\ ~Raised(result)
        /\ \A k \in 1..Len(result.schedule) :
              result.schedule[k].principal_payment =
                  QDiv(call.ar, call.P, QInt(PeriodsOfCall))
        /\ Within(SumOfPrincipalPortions(Len(result.schedule)), call.P, SpecTolerance)
        /\ Within(BalanceAfterLastRow, Zero, SpecTolerance)

\* C4: for valid inputs the principal portions of the constant principal
\* schedule all equal P / N; in exact arithmetic they sum to P and leave a
\* balance of zero, and in binary64 they do so to within 1e-6 times the
\* larger of 1 and P.
C4_RelativeTolerance ==
    (ValidLoan /\ IsConstantPrincipalCall) =>
        /\ ~Raised(result)
        /\ \A k \in 1..Len(result.schedule) :
              result.schedule[k].principal_payment =
                  QDiv(call.ar, call.P, QInt(PeriodsOfCall))
        /\ IF call.ar = "real"
           THEN /\ SumOfPrincipalPortions(Len(result.schedule)) = call.P
                /\ BalanceAfterLastRow = Zero
           ELSE /\ Within(SumOfPrincipalPortions(Len(result.schedule)), call.P,
                          LoanTolerance(SpecTolerance))
                /\ Within(BalanceAfterLastRow, Zero, LoanTolerance(SpecTolerance))

\* a binary64 schedule of three rows on the large principal, whose last row
\* leaves more than 1e-6
C4_Witness ==
    /\ pc = "returned"
    /\ ValidLoan
    /\ IsConstantPrincipalCall
    /\ call.ar = "double"
    /\ call.P = LargePrincipal
    /\ Len(result.schedule) = 3
    /\ ~Within(BalanceAfterLastRow, Zero, SpecTolerance)

C6_InvalidParameters ==
    (pc = "returned" /\ IsScheduleCall /\ (call.n_per_year <= 0 \/ call.T_years <= 0)) =>
        result = Raise("ValueError")

\* the annuity call of main in zad7.py
MainAnnuityCall ==
    /\ IsAnnuityCall
    /\ call.P = QInt(10000)
    /\ call.r_pa = Arg(call.ar, QFrac(10, 100))
    /\ call.T_years = 1
    /\ call.n_per_year = 4

\* every row pays payment and the interest totals interest, to the cent
AnnuityFigures(payment, interest) ==
    /\ ~Raised(result)
    /\ Len(result.schedule) = 4
    /\ \A k \in 1..Len(result.schedule) :
          Within(result.schedule[k].total_payment, payment, QFrac(1, 100))
    /\ Within(result.total_interest, interest, QFrac(1, 100))

\* C7 as stated: calculate_annuity_schedule(10000, 0.10, 1, 4) returns 4
\* rows paying about 2585.98 each, and a total interest of about 340.16 to
\* 340.20.
C7_SpecFigures ==
    MainAnnuityCall => AnnuityFigures(QFrac(258598, 100), QFrac(34018, 100))

\* C7: calculate_annuity_schedule(10000, 0.10, 1, 4) returns 4 rows paying
\* about 2658.18 each, and a total interest of about 632.72.
C7_CodeFigures ==
    MainAnnuityCall => AnnuityFigures(QFrac(265818, 100), QFrac(63272, 100))

\* the annuity call of main has returned, in binary64
C7_Witness ==
    /\ pc = "returned"
    /\ MainAnnuityCall
    /\ call.ar = "double"
    /\ Len(result.schedule) = 4
    /\ QLt(QInt(2658), result.schedule[1].total_payment)

\* C8: at a nominal rate of 0, with P > 0 and N >= 1, both builders return
\* a total interest of 0 and rows whose interest portion is 0, and every
\* row of the annuity schedule pays P / N.
C8_ZeroRate ==
    (PositivePeriods /\ QIsZero(call.r_pa)) =>
        /\ ~Raised(result)
        /\ result.total_interest = Zero
        /\ \A k \in 1..Len(result.schedule) :
              /\ result.schedule[k].interest_payment = Zero
              /\ IsAnnuityCall =>
                    result.schedule[k].total_payment =
                        QDiv(call.ar, call.P, QInt(PeriodsOfCall))

\* an annuity schedule at rate 0 over three periods
C8_Witness ==
    /\ pc = "returned"
    /\ IsAnnuityCall
    /\ PositivePeriods
    /\ QIsZero(call.r_pa)
    /\ Len(result.schedule) = 3
    /\ result.schedule[3].total_payment = QDiv(call.ar, call.P, QInt(3))

\* the mappings holding the items of txs in every order of insertion
Reorderings(txs) ==
    LET n == Len(txs)
    IN  {[i \in 1..n |-> txs[p[i]]] :
            p \in {q \in [1..n -> 1..n] : \A i, j \in 1..n : q[i] = q[j] => i = j}}

\* C9: the total interest and the closing balance a call returns are those
\* of the same call on every mapping that holds the same (day, amount) pairs
\* inserted in another order.
C9_InsertionOrder ==
    (pc = "returned" /\ IsMonthlyCall /\ KeysInMonth) =>
        \A txs \in Reorderings(call.transactions) :
            calculate_monthly_interest(call.ar, call.start_balance, txs,
                                       call.days_in_month, call.annual_rate) = result

\* a call on a mapping whose later day was inserted first
C9_Witness ==
    /\ pc = "returned"
    /\ IsMonthlyCall
    /\ KeysInMonth
    /\ Len(call.transactions) = 2
    /\ call.transactions[1][1] > call.transactions[2][1]
    /\ call.transactions[1][2] # call.transactions[2][2]
    /\ ~QIsZero(result.total_interest)

IsConversionCall == call.fn \in DoublingFunctions \cup FrequencyFunctions

\* the precondition the called conversion states is violated
PreconditionViolated ==
    IF call.fn \in DoublingFunctions THEN QLe(call.rate, Zero)
    ELSE IF call.fn = "t_compound" THEN QLe(call.rate, Zero) \/ call.n <= 0
    ELSE call.n <= 0

\* C11 as stated: a rate conversion ends in ValueError exactly when its
\* precondition is violated (R <= 0 for t_simple and t_continuous, R <= 0 or
\* n <= 0 for t_compound, n <= 0 for calculate_nominal_rate_discrete and
\* calculate_equivalent_periodic_rate), and otherwise returns a value and
\* raises no error.
C11_ValueErrorExactly ==
    (pc = "returned" /\ IsConversionCall) =>
        IF PreconditionViolated THEN result = Raise("ValueError")
        ELSE ~Raised(result)

\* the exact sum of the amounts of the items txs[1..i]
RECURSIVE SumOfSupplied(_, _)
SumOfSupplied(txs, i) ==
    IF i = 0 THEN Zero ELSE QAdd("real", SumOfSupplied(txs, i - 1), txs[i][2])

\* C12 as stated: whatever positive day keys the mapping holds, the key
\* days_in_month + 1 included, every supplied amount reaches the running
\* balance once: the closing balance less the total interest is the start
\* balance plus the sum of all supplied amounts (to within rounding in
\* binary64).
C12_SentinelAddsOnly ==
    (pc = "returned" /\ IsMonthlyCall) =>
        LET supplied == SumOfSupplied(call.transactions, Len(call.transactions))
            expected == QAdd("real", call.start_balance, supplied)
            balance  == QSub("real", result.closing_balance, result.total_interest)
            size     == QAdd("real", QOne,
                             QAdd("real", QAbs(result.closing_balance),
                                  QAbs(result.total_interest)))
        IN  IF call.ar = "real" THEN balance = expected
            ELSE Within(balance, expected, QMul("real", RoundingTolerance, size))
====
